---- MODULE Spec2Model ----
(***************************************************************************)
(* The derived-view engine of the podcast browser: the PodcastProvider of  *)
(* src/src/App.jsx (state hooks, handlers, the filter / sort / paginate    *)
(* memos, the page sync effect and the record fetch with retry).           *)
(*                                                                         *)
(* Text is a sequence of one-character strings, so that toLowerCase,       *)
(* String.prototype.includes and localeCompare are computed, not assumed.  *)
(* One action is one handler (or one step of the fetch) together with the  *)
(* render and the effects that follow it.                                  *)
(***************************************************************************)
EXTENDS Integers, Sequences, FiniteSets, TLC

VARIABLES allShows, searchTerm, sortKey, activeGenreIds, currentPage,
          isLoading, error, fetchPc, fetchI, lastError, loaded, lastOp,
          selectedShowId, detailedShow, isDetailsLoading, detailsError,
          detailFetches, mountFetches, loadCount,
          stripProps, pageButtons, controlButtons

\* the state of the detail view: its four state hooks and the detail
\* fetches in flight
detailVars == <<selectedShowId, detailedShow, isDetailsLoading, detailsError,
                detailFetches>>

\* the runs of loadShows started by the mount effect, each "pending", "done"
\* or "failed", and how often a fetched record set has been stored
mountVars == <<mountFetches, loadCount>>

\* a pagination component taken by itself: the currentPage and totalPages it
\* is given, and the page buttons rendered by the Pagination of App.jsx and
\* by PaginationControls.jsx
stripVars == <<stripProps, pageButtons, controlButtons>>

vars == <<allShows, searchTerm, sortKey, activeGenreIds, currentPage,
          isLoading, error, fetchPc, fetchI, lastError, loaded, lastOp,
          selectedShowId, detailedShow, isDetailsLoading, detailsError,
          detailFetches, mountFetches, loadCount,
          stripProps, pageButtons, controlButtons>>

(***************************************************************************)
(* Bounds of the model and constants of the program.                       *)
(***************************************************************************)
\* longest fetched record set that is enumerated shape by shape
MaxLen == 2
\* the long record sets fill 2..MaxPages pages
MaxPages == 2
ITEMS_PER_PAGE == 12
maxRetries == 3

NULL == "null"

(***************************************************************************)
(* Text.                                                                   *)
(***************************************************************************)
UpperLetters == <<"A","B","C","D","E","F","G","H","I","J","K","L","M",
                  "N","O","P","Q","R","S","T","U","V","W","X","Y","Z">>
LowerLetters == <<"a","b","c","d","e","f","g","h","i","j","k","l","m",
                  "n","o","p","q","r","s","t","u","v","w","x","y","z">>

UpperSet == { UpperLetters[i] : i \in 1..Len(UpperLetters) }
LowerSet == { LowerLetters[i] : i \in 1..Len(LowerLetters) }

IsUpper(c) == c \in UpperSet
IsLower(c) == c \in LowerSet

\* the lower-case letter of each upper-case letter
LowerOf ==
    [c \in UpperSet |->
        LowerLetters[CHOOSE i \in 1..Len(UpperLetters) : UpperLetters[i] = c]]

\* the place of each lower-case letter in the alphabet
PlaceOf ==
    [c \in LowerSet |-> CHOOSE i \in 1..Len(LowerLetters) : LowerLetters[i] = c]

\* String.prototype.toLowerCase, one character
LowerChar(c) == IF IsUpper(c) THEN LowerOf[c] ELSE c

\* String.prototype.toLowerCase
ToLowerCase(s) == [i \in 1..Len(s) |-> LowerChar(s[i])]

\* String.prototype.includes: q occurs in s as a contiguous substring
StrIncludes(s, q) ==
    \E k \in 0..(Len(s) - Len(q)) : SubSeq(s, k + 1, k + Len(q)) = q

\* Array.prototype.includes on an array of numbers
ArrIncludes(arr, x) == \E i \in 1..Len(arr) : arr[i] = x

DigitChars == <<"0","1","2","3","4","5","6","7","8","9">>
DigitValue(c) == (CHOOSE i \in 1..Len(DigitChars) : DigitChars[i] = c) - 1

\* Number(text) of a decimal numeral, the value of a select option
RECURSIVE NumberOfText(_)
NumberOfText(t) ==
    IF t = <<>> THEN 0
    ELSE 10 * NumberOfText(SubSeq(t, 1, Len(t) - 1)) + DigitValue(t[Len(t)])

(***************************************************************************)
(* The texts and record shapes the fetched record sets are built from.     *)
(***************************************************************************)
Crime == <<"C","r","i","m","e">>
Comedy == <<"C","o","m","e","d","y">>
ComedyLc == <<"c","o","m","e","d","y">>
Drama == <<"D","r","a","m","a">>
Fun == <<"f","u","n">>
Cold == <<"c","o","l","d">>
ACrime == <<"a"," ","C","R","I","M","E">>
QueryCrime == <<"C","r","i","m","e">>

\* the four shapes differ in what the filters see (the query matches the
\* title, only the description, or nothing; genre 3 present or not), two
\* titles differ only in case and two timestamps are equal
Shapes == <<
    [title |-> Crime, description |-> Cold,
     genres |-> <<3>>, updated |-> <<2022, 11, 3>>],
    [title |-> Comedy, description |-> Fun,
     genres |-> <<1, 3>>, updated |-> <<2022, 5, 1>>],
    [title |-> ComedyLc, description |-> ACrime,
     genres |-> <<>>, updated |-> <<2022, 5, 1>>],
    [title |-> Drama, description |-> Fun,
     genres |-> <<1>>, updated |-> <<2023, 1, 15>>] >>

\* a record of the fetched array: the shape plus its unique id
Show(i, k) == [id |-> i, title |-> Shapes[k].title,
               description |-> Shapes[k].description,
               genres |-> Shapes[k].genres, updated |-> Shapes[k].updated]

SmallCatalogues ==
    UNION { { [i \in 1..n |-> Show(i, f[i])] : f \in [1..n -> 1..Len(Shapes)] }
            : n \in 0..MaxLen }

LargeCatalogue(n) == [i \in 1..n |-> Show(i, ((i * 3) % Len(Shapes)) + 1)]

LargeCatalogues ==
    { LargeCatalogue((p - 1) * ITEMS_PER_PAGE + 1) : p \in 2..MaxPages }

\* what the API may answer on an ok response
Responses == SmallCatalogues \cup LargeCatalogues

\* what the controls and callers hand to the handlers
SearchInputs == { <<>>, QueryCrime }
GenreInputs == { <<"0">>, <<"3">>, <<"1","5">> }
SortInputs == { "newest", "title_asc", "title_desc", "oldest", "updated_desc" }
PageInputs == (0 - 1)..(MaxPages + 1)
FailureKinds == { "http", "network" }

(***************************************************************************)
(* Filter stage: filteredAndSearchedShows.                                 *)
(***************************************************************************)
\* the genre predicate looking at the first genre of the show only
GenreMatchesFirstOnly(show, filterId) ==
    Len(show.genres) > 0 /\ show.genres[1] = filterId

\* the predicate of the genre filter: show.genres.includes(Number(filterId))
GenreMatches(show, filterId) == ArrIncludes(show.genres, filterId)

\* the text predicate looking at the title only
SearchMatchesTitleOnly(show, lowerCaseSearchTerm) ==
    StrIncludes(ToLowerCase(show.title), lowerCaseSearchTerm)

\* the predicate of the text filter; term is already lower-cased
SearchMatches(show, lowerCaseSearchTerm) ==
    \/ StrIncludes(ToLowerCase(show.title), lowerCaseSearchTerm)
    \/ StrIncludes(ToLowerCase(show.description), lowerCaseSearchTerm)

\* result.filter(show => show.genres.includes(...)): Array.prototype.filter
\* visits the elements in index order and appends the ones the callback keeps
RECURSIVE FilterByGenre(_, _)
FilterByGenre(arr, filterId) ==
    IF arr = <<>> THEN <<>>
    ELSE (IF GenreMatches(Head(arr), filterId) THEN <<Head(arr)>> ELSE <<>>)
         \o FilterByGenre(Tail(arr), filterId)

RECURSIVE FilterBySearch(_, _)
FilterBySearch(arr, term) ==
    IF arr = <<>> THEN <<>>
    ELSE (IF SearchMatches(Head(arr), term) THEN <<Head(arr)>> ELSE <<>>)
         \o FilterBySearch(Tail(arr), term)

\* the text filter run on the whole record set instead of the genre result
FilteredSearchOverAll(shows, genreIds, term) ==
    LET afterGenre == IF Len(genreIds) > 0
                      THEN FilterByGenre(shows, genreIds[1])
                      ELSE shows
    IN IF term # <<>>
       THEN FilterBySearch(shows, ToLowerCase(term))
       ELSE afterGenre

FilteredAndSearchedShows(shows, genreIds, term) ==
    LET afterGenre == IF Len(genreIds) > 0
                      THEN FilterByGenre(shows, genreIds[1])
                      ELSE shows
    IN IF term # <<>>
       THEN FilterBySearch(afterGenre, ToLowerCase(term))
       ELSE afterGenre

(***************************************************************************)
(* Sort stage: sortedShows.                                                *)
(***************************************************************************)
\* new Date(iso).getTime(): a number that grows with the calendar date
DateGetTime(d) == ((d[1] * 12) + (d[2] - 1)) * 31 + (d[3] - 1)

\* primary collation weight of a character: letters by their place in the
\* alphabet whatever their case, the space before every letter
PrimaryWeight(c) ==
    IF IsLower(LowerChar(c)) THEN PlaceOf[LowerChar(c)] ELSE 0

\* the first index at which two texts differ in the primary weight, 0 if none
FirstPrimaryDiff(s, t) ==
    LET n == IF Len(s) < Len(t) THEN Len(s) ELSE Len(t)
        d == { i \in 1..n : PrimaryWeight(s[i]) # PrimaryWeight(t[i]) }
    IN IF d = {} THEN 0 ELSE CHOOSE i \in d : \A j \in d : i <= j

CaseRank(c) == IF IsUpper(c) THEN 1 ELSE 0

\* the first index at which two texts differ in the case of a letter, 0 if none
FirstCaseDiff(s, t) ==
    LET n == IF Len(s) < Len(t) THEN Len(s) ELSE Len(t)
        d == { i \in 1..n : CaseRank(s[i]) # CaseRank(t[i]) }
    IN IF d = {} THEN 0 ELSE CHOOSE i \in d : \A j \in d : i <= j

\* String.prototype.localeCompare with no options: the letters decide first
\* (primary level); between texts with the same letters the case decides
\* (tertiary level, lower case first); 0 only for identical texts
LocaleCompare(s, t) ==
    LET p == FirstPrimaryDiff(s, t)
        c == FirstCaseDiff(s, t)
    IN IF p # 0
       THEN (IF PrimaryWeight(s[p]) < PrimaryWeight(t[p]) THEN 0 - 1 ELSE 1)
       ELSE IF Len(s) # Len(t)
       THEN (IF Len(s) < Len(t) THEN 0 - 1 ELSE 1)
       ELSE IF c # 0
       THEN (IF CaseRank(s[c]) < CaseRank(t[c]) THEN 0 - 1 ELSE 1)
       ELSE 0

dateComparer(a, b) == DateGetTime(b.updated) - DateGetTime(a.updated)

\* the switch with the comparator of title_asc under title_desc as well
ComparatorDescAsAsc(key, a, b) ==
    CASE key = "title_asc" -> LocaleCompare(a.title, b.title)
      [] key = "title_desc" -> LocaleCompare(a.title, b.title)
      [] OTHER -> dateComparer(a, b)

\* the switch with its default branch comparing titles
ComparatorDefaultByTitle(key, a, b) ==
    CASE key = "title_asc" -> LocaleCompare(a.title, b.title)
      [] key = "title_desc" -> LocaleCompare(b.title, a.title)
      [] key = "newest" -> dateComparer(a, b)
      [] OTHER -> LocaleCompare(a.title, b.title)

\* the comparator the switch on sortKey hands to sort
Comparator(key, a, b) ==
    CASE key = "title_asc" -> LocaleCompare(a.title, b.title)
      [] key = "title_desc" -> LocaleCompare(b.title, a.title)
      [] OTHER -> dateComparer(a, b)

\* Array.prototype.sort(comparator) is a stable sort (ECMAScript 2019): an
\* element moves in front of another only when the comparator says it is
\* smaller.  Computed here by insertion from the left.
\* insertion in front of the elements that compare equal: not stable
RECURSIVE InsertSortedBeforeEquals(_, _, _)
InsertSortedBeforeEquals(x, sorted, key) ==
    IF sorted = <<>> THEN <<x>>
    ELSE IF Comparator(key, Head(sorted), x) >= 0 THEN <<x>> \o sorted
    ELSE <<Head(sorted)>> \o InsertSortedBeforeEquals(x, Tail(sorted), key)

RECURSIVE InsertSorted(_, _, _)
InsertSorted(x, sorted, key) ==
    IF sorted = <<>> THEN <<x>>
    ELSE IF Comparator(key, Head(sorted), x) > 0 THEN <<x>> \o sorted
    ELSE <<Head(sorted)>> \o InsertSorted(x, Tail(sorted), key)

RECURSIVE ArraySort(_, _, _)
ArraySort(done, rest, key) ==
    IF rest = <<>> THEN done
    ELSE ArraySort(InsertSorted(Head(rest), done, key), Tail(rest), key)

SortedShows(filtered, key) == ArraySort(<<>>, filtered, key)

\* the source array after a sort that sorts the filter output itself: with
\* no filter active the filter output is the source array
SourceSortedInPlace(shows, filtered, key) ==
    IF filtered = shows THEN SortedShows(filtered, key) ELSE shows

\* the source array after sortedShows has been computed: the memo spreads
\* the filter output into a new array and sorts that one, so the array the
\* filter output may share with allShows is left as it is
SourceAfterSort(shows, filtered, key) == shows

(***************************************************************************)
(* Pagination stage: totalItems, totalPages, paginatedShows.               *)
(***************************************************************************)
\* the quotient rounded down instead of up
FloorDiv(n, d) == n \div d

\* Math.ceil(n / d) for n >= 0, d > 0
CeilDiv(n, d) == IF n % d = 0 THEN n \div d ELSE (n \div d) + 1

TotalItemsOf(shows, genreIds, term, key) ==
    Len(SortedShows(FilteredAndSearchedShows(shows, genreIds, term), key))

TotalPagesOf(shows, genreIds, term, key) ==
    CeilDiv(TotalItemsOf(shows, genreIds, term, key), ITEMS_PER_PAGE)

\* Array.prototype.slice(start, end): a negative index counts from the end
SliceIndex(k, len) ==
    IF k < 0 THEN (IF len + k < 0 THEN 0 ELSE len + k)
    ELSE (IF k > len THEN len ELSE k)

ArraySlice(arr, start, end) ==
    SubSeq(arr, SliceIndex(start, Len(arr)) + 1, SliceIndex(end, Len(arr)))

\* the slice with an end index one too far
PaginatedShowsOneMore(sorted, page) ==
    LET startIndex == (page - 1) * ITEMS_PER_PAGE
        endIndex == startIndex + ITEMS_PER_PAGE + 1
    IN ArraySlice(sorted, startIndex, endIndex)

PaginatedShowsOf(sorted, page) ==
    LET startIndex == (page - 1) * ITEMS_PER_PAGE
        endIndex == startIndex + ITEMS_PER_PAGE
    IN ArraySlice(sorted, startIndex, endIndex)

\* the derived values of the current state
filteredAndSearchedShows ==
    FilteredAndSearchedShows(allShows, activeGenreIds, searchTerm)
sortedShows == SortedShows(filteredAndSearchedShows, sortKey)
totalItems == Len(sortedShows)
totalPages == CeilDiv(totalItems, ITEMS_PER_PAGE)
paginatedShows == PaginatedShowsOf(sortedShows, currentPage)

(***************************************************************************)
(* The page sync effect.                                                   *)
(***************************************************************************)
\* the effect with its first branch going back to the first page
SyncPageToFirst(page, pages) ==
    IF page > pages /\ pages > 0 THEN 1
    ELSE IF page = 0 /\ pages > 0 THEN 1
    ELSE IF page > 1 /\ pages = 0 THEN 1
    ELSE page

\* one run of the effect: the page it sets, or the page itself
SyncPage(page, pages) ==
    IF page > pages /\ pages > 0 THEN pages
    ELSE IF page = 0 /\ pages > 0 THEN 1
    ELSE IF page > 1 /\ pages = 0 THEN 1
    ELSE page

\* the effect runs again after each render it causes, until it sets nothing
RECURSIVE SettlePage(_, _)
SettlePage(page, pages) ==
    IF SyncPage(page, pages) = page THEN page
    ELSE SettlePage(SyncPage(page, pages), pages)

(***************************************************************************)
(* State after the provider has mounted: the state hooks hold their        *)
(* initial values and the mount effect has started loadShows, whose first  *)
(* fetch attempt is in flight.  Two history variables: loaded is the        *)
(* record set as the fetch returned it; lastOp is the last operation, with *)
(* the page number handlePageChange was given or the number of the fetch   *)
(* attempt that ended (n), the value of the sort control or the kind of    *)
(* the last failure (key), the value of the genre control (option) and the *)
(* page the operation started from (from); a field that does not apply     *)
(* holds 0, "" or the empty text.                                          *)
(***************************************************************************)
Op(name, n, key, option, from) ==
    [op |-> name, n |-> n, key |-> key, option |-> option, from |-> from]

\* the initial values of the state hooks of the detail view; no detail
\* fetch is in flight
DetailViewClosed ==
    /\ selectedShowId = 0
    /\ detailedShow = 0
    /\ isDetailsLoading = FALSE
    /\ detailsError = NULL
    /\ detailFetches = <<>>

\* no pagination component is rendered by itself
StripNotRendered ==
    /\ stripProps = [currentPage |-> 1, totalPages |-> 0]
    /\ pageButtons = <<>>
    /\ controlButtons = <<>>

Init ==
    /\ allShows = <<>>
    /\ searchTerm = <<>>
    /\ sortKey = "newest"
    /\ activeGenreIds = <<>>
    /\ currentPage = 1
    /\ isLoading = TRUE
    /\ error = NULL
    /\ fetchPc = "attempt"
    /\ fetchI = 0
    /\ lastError = NULL
    /\ loaded = <<>>
    /\ lastOp = Op("mount", 0, "", <<>>, 0)
    /\ DetailViewClosed
    /\ mountFetches = <<>>
    /\ loadCount = 0
    /\ StripNotRendered

(***************************************************************************)
(* The record fetch: fetchWithRetry inside fetchAllPodcasts inside         *)
(* loadShows.                                                              *)
(***************************************************************************)
\* the load without the run of the page sync effect that follows it
FetchOkKeepingPage(data) ==
    /\ fetchPc = "attempt"
    /\ allShows' =
          SourceAfterSort(data,
                          FilteredAndSearchedShows(data, activeGenreIds, searchTerm),
                          sortKey)
    /\ loaded' = data
    /\ isLoading' = FALSE
    /\ currentPage' = currentPage
    /\ fetchPc' = "done"
    /\ fetchI' = 0
    /\ lastError' = NULL
    /\ lastOp' = Op("load", fetchI + 1, "", <<>>, currentPage)
    /\ UNCHANGED <<searchTerm, sortKey, activeGenreIds, error>>
    /\ UNCHANGED <<detailVars, mountVars, stripVars>>

\* an attempt answers ok: fetchWithRetry returns the data, loadShows stores
\* it and clears the loading flag; the render that follows runs the page
\* sync effect
FetchOk(data) ==
    /\ fetchPc = "attempt"
    /\ allShows' =
          SourceAfterSort(data,
                          FilteredAndSearchedShows(data, activeGenreIds, searchTerm),
                          sortKey)
    /\ loaded' = data
    /\ isLoading' = FALSE
    /\ currentPage' =
          SettlePage(currentPage,
                     TotalPagesOf(data, activeGenreIds, searchTerm, sortKey))
    /\ fetchPc' = "done"
    /\ fetchI' = 0
    /\ lastError' = NULL
    /\ lastOp' = Op("load", fetchI + 1, "", <<>>, currentPage)
    /\ UNCHANGED <<searchTerm, sortKey, activeGenreIds, error>>
    /\ UNCHANGED <<detailVars, mountVars, stripVars>>

\* an attempt fails, by a non-ok status or by a thrown network error: the
\* error is kept and the backoff timer of this attempt is started
FetchFail(kind) ==
    /\ fetchPc = "attempt"
    /\ lastError' = kind
    /\ fetchPc' = "backoff"
    /\ lastOp' = Op("fetchFail", 0, "", <<>>, 0)
    /\ UNCHANGED <<allShows, searchTerm, sortKey, activeGenreIds, currentPage,
                   isLoading, error, fetchI, loaded>>
    /\ UNCHANGED <<detailVars, mountVars, stripVars>>

\* the message loadShows stores: fetchAllPodcasts replaces whatever
\* fetchWithRetry threw
COULD_NOT_CONNECT == "Could not connect to the podcast API."

\* the loop with one more round: a fourth attempt after the third failure
BackoffElapsedOneMore ==
    /\ fetchPc = "backoff"
    /\ lastOp' = Op("backoff", fetchI + 1, lastError, <<>>, 0)
    /\ IF fetchI + 1 < maxRetries + 1
       THEN /\ fetchI' = fetchI + 1
            /\ fetchPc' = "attempt"
            /\ UNCHANGED <<error, isLoading, lastError>>
       ELSE /\ fetchI' = 0
            /\ fetchPc' = "done"
            /\ lastError' = NULL
            /\ error' = COULD_NOT_CONNECT
            /\ isLoading' = FALSE
    /\ UNCHANGED <<allShows, searchTerm, sortKey, activeGenreIds, currentPage,
                   loaded>>
    /\ UNCHANGED <<detailVars, mountVars, stripVars>>

\* the end of the loop with nothing catching what fetchWithRetry throws:
\* no error is stored and the loading flag stays set
BackoffElapsedUncaught ==
    /\ fetchPc = "backoff"
    /\ lastOp' = Op("backoff", fetchI + 1, lastError, <<>>, 0)
    /\ IF fetchI + 1 < maxRetries
       THEN /\ fetchI' = fetchI + 1
            /\ fetchPc' = "attempt"
            /\ UNCHANGED <<error, isLoading, lastError>>
       ELSE /\ fetchI' = 0
            /\ fetchPc' = "done"
            /\ lastError' = NULL
            /\ UNCHANGED <<error, isLoading>>
    /\ UNCHANGED <<allShows, searchTerm, sortKey, activeGenreIds, currentPage,
                   loaded>>
    /\ UNCHANGED <<detailVars, mountVars, stripVars>>

\* the loop with the attempt outside the try: a thrown network error leaves
\* the loop at once, a non-ok status is retried
BackoffElapsedNetworkNotRetried ==
    /\ fetchPc = "backoff"
    /\ lastOp' = Op("backoff", fetchI + 1, lastError, <<>>, 0)
    /\ IF fetchI + 1 < maxRetries /\ lastError # "network"
       THEN /\ fetchI' = fetchI + 1
            /\ fetchPc' = "attempt"
            /\ UNCHANGED <<error, isLoading, lastError>>
       ELSE /\ fetchI' = 0
            /\ fetchPc' = "done"
            /\ lastError' = NULL
            /\ error' = COULD_NOT_CONNECT
            /\ isLoading' = FALSE
    /\ UNCHANGED <<allShows, searchTerm, sortKey, activeGenreIds, currentPage,
                   loaded>>
    /\ UNCHANGED <<detailVars, mountVars, stripVars>>

\* the backoff timer fires: the loop goes to the next attempt, or, after the
\* last one, fetchWithRetry throws and loadShows stores the error
BackoffElapsed ==
    /\ fetchPc = "backoff"
    /\ lastOp' = Op("backoff", fetchI + 1, lastError, <<>>, 0)
    /\ IF fetchI + 1 < maxRetries
       THEN /\ fetchI' = fetchI + 1
            /\ fetchPc' = "attempt"
            /\ UNCHANGED <<error, isLoading, lastError>>
       ELSE /\ fetchI' = 0
            /\ fetchPc' = "done"
            /\ lastError' = NULL
            /\ error' = COULD_NOT_CONNECT
            /\ isLoading' = FALSE
    /\ UNCHANGED <<allShows, searchTerm, sortKey, activeGenreIds, currentPage,
                   loaded>>
    /\ UNCHANGED <<detailVars, mountVars, stripVars>>

(***************************************************************************)
(* The handlers of the list view.  Each sets its state in one batch; the   *)
(* render of the new state runs the page sync effect.                      *)
(***************************************************************************)
HandleSearchChange(value) ==
    /\ searchTerm' = value
    /\ currentPage' =
          SettlePage(1, TotalPagesOf(allShows, activeGenreIds, value, sortKey))
    /\ allShows' =
          SourceAfterSort(allShows,
                          FilteredAndSearchedShows(allShows, activeGenreIds, value),
                          sortKey)
    /\ lastOp' = Op("search", 0, "", <<>>, currentPage)
    /\ UNCHANGED <<sortKey, activeGenreIds, isLoading, error,
                   fetchPc, fetchI, lastError, loaded>>
    /\ UNCHANGED <<detailVars, mountVars, stripVars>>

\* handleSortChange without its setCurrentPage(1)
HandleSortChangeKeepingPage(value) ==
    /\ sortKey' = value
    /\ currentPage' =
          SettlePage(currentPage,
                     TotalPagesOf(allShows, activeGenreIds, searchTerm, value))
    /\ allShows' =
          SourceAfterSort(allShows,
                          FilteredAndSearchedShows(allShows, activeGenreIds, searchTerm),
                          value)
    /\ lastOp' = Op("sort", 0, value, <<>>, currentPage)
    /\ UNCHANGED <<searchTerm, activeGenreIds, isLoading, error,
                   fetchPc, fetchI, lastError, loaded>>
    /\ UNCHANGED <<detailVars, mountVars, stripVars>>

HandleSortChange(value) ==
    /\ sortKey' = value
    /\ currentPage' =
          SettlePage(1, TotalPagesOf(allShows, activeGenreIds, searchTerm, value))
    /\ allShows' =
          SourceAfterSort(allShows,
                          FilteredAndSearchedShows(allShows, activeGenreIds, searchTerm),
                          value)
    /\ lastOp' = Op("sort", 0, value, <<>>, currentPage)
    /\ UNCHANGED <<searchTerm, activeGenreIds, isLoading, error,
                   fetchPc, fetchI, lastError, loaded>>
    /\ UNCHANGED <<detailVars, mountVars, stripVars>>

\* the ids handleGenreSelect stores for the value of the select control
SelectedGenreIds(value) ==
    LET selectedId == NumberOfText(value)
    IN IF selectedId = 0 THEN <<>> ELSE <<selectedId>>

HandleGenreSelect(value) ==
    /\ activeGenreIds' = SelectedGenreIds(value)
    /\ currentPage' =
          SettlePage(1, TotalPagesOf(allShows, SelectedGenreIds(value),
                                     searchTerm, sortKey))
    /\ allShows' =
          SourceAfterSort(allShows,
                          FilteredAndSearchedShows(allShows, SelectedGenreIds(value),
                                                   searchTerm),
                          sortKey)
    /\ lastOp' = Op("genre", 0, "", value, currentPage)
    /\ UNCHANGED <<searchTerm, sortKey, isLoading, error,
                   fetchPc, fetchI, lastError, loaded>>
    /\ UNCHANGED <<detailVars, mountVars, stripVars>>

\* the page handlePageChange stores
RequestedPage(pageNumber) == pageNumber

HandlePageChange(pageNumber) ==
    /\ currentPage' = SettlePage(RequestedPage(pageNumber), totalPages)
    /\ lastOp' = Op("page", pageNumber, "", <<>>, 0)
    /\ UNCHANGED <<allShows, searchTerm, sortKey, activeGenreIds, isLoading,
                   error, fetchPc, fetchI, lastError, loaded>>
    /\ UNCHANGED <<detailVars, mountVars, stripVars>>

\* handleReset without its setSortKey('newest')
HandleResetKeepingSort ==
    /\ searchTerm' = <<>>
    /\ activeGenreIds' = <<>>
    /\ currentPage' = SettlePage(1, TotalPagesOf(allShows, <<>>, <<>>, sortKey))
    /\ allShows' =
          SourceAfterSort(allShows,
                          FilteredAndSearchedShows(allShows, <<>>, <<>>), sortKey)
    /\ lastOp' = Op("reset", 0, "", <<>>, currentPage)
    /\ UNCHANGED <<sortKey, isLoading, error, fetchPc, fetchI, lastError, loaded>>
    /\ UNCHANGED <<detailVars, mountVars, stripVars>>

HandleReset ==
    /\ searchTerm' = <<>>
    /\ sortKey' = "newest"
    /\ activeGenreIds' = <<>>
    /\ currentPage' = SettlePage(1, TotalPagesOf(allShows, <<>>, <<>>, "newest"))
    /\ allShows' =
          SourceAfterSort(allShows,
                          FilteredAndSearchedShows(allShows, <<>>, <<>>), "newest")
    /\ lastOp' = Op("reset", 0, "", <<>>, currentPage)
    /\ UNCHANGED <<isLoading, error, fetchPc, fetchI, lastError, loaded>>
    /\ UNCHANGED <<detailVars, mountVars, stripVars>>

(***************************************************************************)
(* What the list view renders: the branches of ShowGrid.                   *)
(***************************************************************************)
\* the branches with the test for no results in front
ShowGridBranchEmptyFirst ==
    IF totalItems = 0 THEN "Empty"
    ELSE IF isLoading THEN "Loading"
    ELSE IF error # NULL THEN "Error"
    ELSE "Ready"

\* ListLoadingState (spinner), ListErrorState (message, no spinner), the
\* 'No Podcasts Found' block, or the grid with its pagination
ShowGridBranch ==
    IF isLoading THEN "Loading"
    ELSE IF error # NULL THEN "Error"
    ELSE IF totalItems = 0 THEN "Empty"
    ELSE "Ready"

\* the time in ms of the timer set after the failure of attempt i
BackoffDelay(i) == 1000 * (2 ^ i)

\* the timer the fetch is waiting for, 0 when it waits for none
pendingDelay == IF fetchPc = "backoff" THEN BackoffDelay(fetchI) ELSE 0

Next ==
    \/ \E data \in Responses : FetchOk(data)
    \/ \E kind \in FailureKinds : FetchFail(kind)
    \/ BackoffElapsed
    \/ \E value \in SearchInputs : HandleSearchChange(value)
    \/ \E value \in SortInputs : HandleSortChange(value)
    \/ \E value \in GenreInputs : HandleGenreSelect(value)
    \/ \E pageNumber \in PageInputs : HandlePageChange(pageNumber)
    \/ HandleReset

Spec == Init /\ [][Next]_vars

\* a step of the record fetch: an attempt settles, or a backoff timer fires
FetchStep ==
    \/ \E data \in Responses : FetchOk(data)
    \/ \E kind \in FailureKinds : FetchFail(kind)
    \/ BackoffElapsed

\* every fetch attempt settles, with a response or an error, and every timer
\* set by setTimeout fires: a step of the fetch that stays possible happens
FairSpec == Spec /\ WF_vars(FetchStep)

(***************************************************************************)
(* Helpers of the properties.                                              *)
(***************************************************************************)
Max(a, b) == IF a > b THEN a ELSE b
Min(a, b) == IF a < b THEN a ELSE b
IdsOf(seq) == { seq[i].id : i \in 1..Len(seq) }
ParamOps == { "search", "sort", "genre" }

C2_ParamChangeResetsPage ==
    lastOp.op \in ParamOps =>
        LET out == sortedShows
        IN /\ currentPage = 1
           /\ PaginatedShowsOf(out, currentPage) =
                 SubSeq(out, 1, Min(ITEMS_PER_PAGE, Len(out)))

C2_Witness ==
    /\ lastOp.op \in ParamOps
    /\ lastOp.from >= 2
    /\ totalPages >= 2
    /\ currentPage = 1

PageAfterRequest(n, pages) ==
    CASE n >= 1 /\ n <= pages -> n
      [] n > pages /\ pages >= 1 -> pages
      [] n = 0 /\ pages >= 1 -> 1
      [] n > 1 /\ pages = 0 -> 1
      [] OTHER -> n

SameLetter(a, b) ==
    \/ a = b
    \/ \E i \in 1..Len(UpperLetters) : {a, b} = {UpperLetters[i], LowerLetters[i]}

ContainsIgnoringCase(s, q) ==
    \E k \in 0..(Len(s) - Len(q)) :
        \A j \in 1..Len(q) : SameLetter(s[k + j], q[j])

TextHit(show) ==
    \/ ContainsIgnoringCase(show.title, searchTerm)
    \/ ContainsIgnoringCase(show.description, searchTerm)

GenreHit(show) ==
    \E j \in 1..Len(show.genres) : show.genres[j] = activeGenreIds[1]

PassesText(show) == searchTerm = <<>> \/ TextHit(show)
PassesGenre(show) == activeGenreIds = <<>> \/ GenreHit(show)
AllIndices == 1..Len(allShows)

\* the scenario of the specification: two records, query "crime"
ScenarioShows == <<
    [id |-> 1,
     title |-> <<"T","r","u","e"," ","C","r","i","m","e"," ",
                 "S","t","o","r","i","e","s">>,
     description |-> Cold, genres |-> <<3>>, updated |-> <<2022, 11, 3>>],
    [id |-> 2,
     title |-> <<"C","o","m","e","d","y"," ","H","o","u","r">>,
     description |-> Fun, genres |-> <<1>>, updated |-> <<2022, 5, 1>>] >>

ScenarioMatched ==
    FilteredAndSearchedShows(ScenarioShows, <<>>, <<"c","r","i","m","e">>)

GenreIdsOfOption(value) ==
    CASE value = <<"0">> -> <<>>
      [] value = <<"3">> -> <<3>>
      [] value = <<"1","5">> -> <<15>>

(***************************************************************************)
(* C5: the genre handler stores the number the option text stands for, and *)
(* nothing for 'All Genres'; among the records the text predicate lets     *)
(* through, the filter keeps exactly those whose genres hold that number,  *)
(* and all of them when no genre is selected.                              *)
(***************************************************************************)
C5_GenreFilter ==
    LET kept == IdsOf(filteredAndSearchedShows)
    IN /\ lastOp.op = "genre" =>
             activeGenreIds = GenreIdsOfOption(lastOp.option)
       /\ \A k \in AllIndices :
             PassesText(allShows[k]) =>
                 ( allShows[k].id \in kept
                     <=> ( \/ activeGenreIds = <<>>
                           \/ \E j \in 1..Len(allShows[k].genres) :
                                 allShows[k].genres[j] = activeGenreIds[1] ) )

C5_Witness ==
    LET out == filteredAndSearchedShows
        kept == IdsOf(out)
    IN /\ lastOp.op = "genre"
       /\ lastOp.option = <<"3">>
       /\ \E i \in 1..Len(out) : out[i].genres[1] # 3
       /\ \E k \in AllIndices :
             PassesText(allShows[k]) /\ allShows[k].id \notin kept

(***************************************************************************)
(* C6: the filter output holds exactly the records that pass both          *)
(* predicates, each as it is in the input and in the input's order (the    *)
(* id of a fetched record is its index in the input).                      *)
(***************************************************************************)
C6_FilterIsConjunctionInOrder ==
    LET out == filteredAndSearchedShows
    IN /\ \A i \in 1..Len(out) :
             out[i].id \in AllIndices /\ out[i] = allShows[out[i].id]
       /\ \A i \in 1..(Len(out) - 1) : out[i].id < out[i + 1].id
       /\ IdsOf(out) =
             { k \in AllIndices : PassesText(allShows[k]) /\ PassesGenre(allShows[k]) }

C6_Witness ==
    /\ searchTerm # <<>>
    /\ activeGenreIds # <<>>
    /\ Len(filteredAndSearchedShows) >= 2
    /\ \E k \in AllIndices : TextHit(allShows[k]) /\ ~GenreHit(allShows[k])
    /\ \E k \in AllIndices : ~TextHit(allShows[k]) /\ GenreHit(allShows[k])

(***************************************************************************)
(* What the sort claims speak of.                                          *)
(***************************************************************************)
TitleKeys == { "title_asc", "title_desc" }
SortVocabulary == { "newest", "oldest", "title_asc", "title_desc" }
Time(show) == DateGetTime(show.updated)

\* the place in the alphabet of a letter of either case, 0 for anything else
LetterPlace(c) ==
    IF \E i \in 1..Len(UpperLetters) : c \in {UpperLetters[i], LowerLetters[i]}
    THEN CHOOSE i \in 1..Len(UpperLetters) : c \in {UpperLetters[i], LowerLetters[i]}
    ELSE 0

\* dictionary order of two texts with the case of the letters ignored
RECURSIVE FoldedCompare(_, _)
FoldedCompare(s, t) ==
    IF s = <<>> /\ t = <<>> THEN 0
    ELSE IF s = <<>> THEN 0 - 1
    ELSE IF t = <<>> THEN 1
    ELSE IF LetterPlace(Head(s)) < LetterPlace(Head(t)) THEN 0 - 1
    ELSE IF LetterPlace(Head(s)) > LetterPlace(Head(t)) THEN 1
    ELSE FoldedCompare(Tail(s), Tail(t))

\* of two different texts with the same letters: s has the lower-case letter
\* at the first place where they differ
LowerCaseFirst(s, t) ==
    LET d == { i \in 1..Len(s) : s[i] # t[i] }
    IN d # {} /\ s[CHOOSE i \in d : \A j \in d : i <= j] \in LowerSet

\* every record of the filter output is in the sort output, once, unchanged
SortedIsPermutation ==
    LET out == sortedShows
    IN /\ Len(out) = Len(filteredAndSearchedShows)
       /\ IdsOf(out) = IdsOf(filteredAndSearchedShows)
       /\ \A i \in 1..Len(out) : out[i] = allShows[out[i].id]

(***************************************************************************)
(* C7: 'newest' orders by timestamp descending, 'oldest' ascending, and    *)
(* the output is a permutation of the input for every key.  The switch of  *)
(* sortedShows has no 'oldest' case: that key falls to the default branch  *)
(* and is sorted newest first.                                             *)
(***************************************************************************)
C7_NewestDescendingOldestAscending ==
    LET out == sortedShows
    IN /\ sortKey = "newest" =>
             \A i \in 1..(Len(out) - 1) : Time(out[i]) >= Time(out[i + 1])
       /\ sortKey = "oldest" =>
             \A i \in 1..(Len(out) - 1) : Time(out[i]) <= Time(out[i + 1])
       /\ SortedIsPermutation

(***************************************************************************)
(* C8: two records with equal timestamps (under a date key) or equal       *)
(* titles (under a title key) stand in the sort output in the order they   *)
(* have in the filter output, which is the order of their ids.             *)
(***************************************************************************)
C8_SortIsStable ==
    LET out == sortedShows
    IN \A i \in 1..Len(out) : \A j \in (i + 1)..Len(out) :
           (IF sortKey \in TitleKeys
            THEN out[i].title = out[j].title
            ELSE Time(out[i]) = Time(out[j]))
           => out[i].id < out[j].id

C8_Witness ==
    LET out == sortedShows
    IN /\ sortKey \in TitleKeys
       /\ \E i \in 1..(Len(out) - 1) :
             /\ out[i].title = out[i + 1].title
             /\ out[i + 1].id > out[i].id + 1
       /\ out # filteredAndSearchedShows

(***************************************************************************)
(* C9 as claimed: under the title keys the records are ordered by title    *)
(* with the case ignored, and titles that differ only in case count as     *)
(* equal and keep their input order.                                       *)
(***************************************************************************)
C9_CaseVariantsKeepInputOrder ==
    LET out == sortedShows
    IN sortKey \in TitleKeys =>
           \A i \in 1..Len(out) : \A j \in (i + 1)..Len(out) :
               LET c == FoldedCompare(out[i].title, out[j].title)
               IN /\ IF sortKey = "title_asc" THEN c <= 0 ELSE c >= 0
                  /\ c = 0 => out[i].id < out[j].id

(***************************************************************************)
(* C9 amended: under the title keys the letters decide first, whatever     *)
(* their case, ascending for title_asc and descending for title_desc;      *)
(* titles that differ only in case are not equal: the one with the lower   *)
(* case letter comes first under title_asc and last under title_desc;      *)
(* only identical titles keep their input order.                           *)
(***************************************************************************)
C9_TitleOrder ==
    LET out == sortedShows
    IN sortKey \in TitleKeys =>
           \A i \in 1..Len(out) : \A j \in (i + 1)..Len(out) :
               LET a == out[i].title
                   b == out[j].title
                   c == FoldedCompare(a, b)
               IN /\ IF sortKey = "title_asc" THEN c <= 0 ELSE c >= 0
                  /\ (c = 0 /\ a # b) =>
                        IF sortKey = "title_asc"
                        THEN LowerCaseFirst(a, b) ELSE LowerCaseFirst(b, a)
                  /\ a = b => out[i].id < out[j].id

C9_Witness ==
    LET out == sortedShows
    IN /\ sortKey = "title_asc"
       /\ \E i \in 1..(Len(out) - 1) :
             /\ FoldedCompare(out[i].title, out[i + 1].title) = 0
             /\ out[i].title # out[i + 1].title
             /\ out[i].id > out[i + 1].id
       /\ \E i \in 1..(Len(out) - 1) :
             FoldedCompare(out[i].title, out[i + 1].title) < 0

(***************************************************************************)
(* C10 as claimed: the stored sort key is always one of the vocabulary.    *)
(***************************************************************************)
C10_SortKeyInVocabulary == sortKey \in SortVocabulary

(***************************************************************************)
(* C10 amended: handleSortChange stores the value it is given, whatever it *)
(* is, and the sort stage never fails: under a key outside the vocabulary  *)
(* it returns all the records, ordered as under 'newest'.                  *)
(***************************************************************************)
C10_UnknownKeySortsNewest ==
    LET out == sortedShows
    IN /\ lastOp.op = "sort" => sortKey = lastOp.key
       /\ sortKey \notin SortVocabulary =>
             /\ SortedIsPermutation
             /\ out = SortedShows(filteredAndSearchedShows, "newest")
             /\ \A i \in 1..(Len(out) - 1) : Time(out[i]) >= Time(out[i + 1])

C10_Witness ==
    /\ lastOp.op = "sort"
    /\ sortKey \notin SortVocabulary
    /\ Len(sortedShows) >= 2
    /\ sortedShows # filteredAndSearchedShows

(***************************************************************************)
(* C11: whatever parameter changes have happened, allShows holds the       *)
(* records the fetch returned, in the same order: no filter, sort or       *)
(* pagination step changes the source record set.                          *)
(***************************************************************************)
C11_SourceSetUnchanged == allShows = loaded

C11_Witness ==
    /\ lastOp.op = "sort"
    /\ sortKey \in TitleKeys
    /\ searchTerm = <<>>
    /\ activeGenreIds = <<>>
    /\ Len(allShows) >= 2
    /\ sortedShows # allShows

(***************************************************************************)
(* C12: totalItems is the number of matching records and totalPages is     *)
(* the least number of pages of 12 that hold them all: it is 0 exactly     *)
(* when no record matches and at least 1 otherwise.  The same holds of the *)
(* page count of every number of records up to one more than MaxPages full *)
(* pages, a whole number of full pages included.                           *)
(***************************************************************************)
C12_TotalPagesIsCeiling ==
    LET items == totalItems
        pages == totalPages
    IN /\ ITEMS_PER_PAGE = 12
       /\ items = Len(filteredAndSearchedShows)
       /\ pages * 12 >= items
       /\ (pages - 1) * 12 < items
       /\ pages = 0 <=> items = 0
       /\ items > 0 => pages >= 1
       /\ \A n \in 0..(MaxPages * 12 + 1) :
             /\ CeilDiv(n, ITEMS_PER_PAGE) * 12 >= n
             /\ (CeilDiv(n, ITEMS_PER_PAGE) - 1) * 12 < n

C12_Witness ==
    /\ totalItems > ITEMS_PER_PAGE
    /\ totalItems % ITEMS_PER_PAGE # 0
    /\ totalPages = 2
    /\ totalItems = Len(allShows)

\* the records of a sequence at the offsets (page-1)*12 .. page*12 - 1 that
\* exist in it
Window(out, page) ==
    LET lo == Max(1, (page - 1) * ITEMS_PER_PAGE + 1)
        hi == Min(page * ITEMS_PER_PAGE, Len(out))
    IN IF lo > hi THEN <<>> ELSE SubSeq(out, lo, hi)

C13_SliceOfPositivePage ==
    LET out == sortedShows
    IN /\ currentPage >= 1 =>
             PaginatedShowsOf(out, currentPage) = Window(out, currentPage)
       /\ \A page \in 1..(MaxPages + 1) :
             /\ PaginatedShowsOf(out, page) = Window(out, page)
             /\ page > totalPages => PaginatedShowsOf(out, page) = <<>>

\* the slices of the pages from..last of a sequence, one after the other
RECURSIVE ConcatPages(_, _, _)
ConcatPages(out, from, last) ==
    IF from > last THEN <<>>
    ELSE PaginatedShowsOf(out, from) \o ConcatPages(out, from + 1, last)

(***************************************************************************)
(* C14: the slice of the current page and the slice of every page          *)
(* 1..totalPages hold at most 12 records, and the slices of the pages      *)
(* 1..totalPages one after the other are the sorted sequence itself, each  *)
(* record once.                                                            *)
(***************************************************************************)
C14_PagesPartitionSortedShows ==
    LET out == sortedShows
        pages == CeilDiv(Len(out), ITEMS_PER_PAGE)
        all == ConcatPages(out, 1, pages)
    IN /\ Len(PaginatedShowsOf(out, currentPage)) <= ITEMS_PER_PAGE
       /\ \A p \in 1..pages :
             /\ Len(PaginatedShowsOf(out, p)) <= ITEMS_PER_PAGE
             /\ Len(PaginatedShowsOf(out, p)) >= 1
       /\ all = out
       /\ Cardinality(IdsOf(all)) = Len(filteredAndSearchedShows)

C14_Witness ==
    /\ totalPages >= 2
    /\ currentPage = 2
    /\ sortKey \in TitleKeys
    /\ sortedShows # allShows
    /\ Len(paginatedShows) < ITEMS_PER_PAGE

C16_ResetRestoresDefaults ==
    [][lastOp'.op = "reset" =>
         /\ searchTerm' = <<>>
         /\ activeGenreIds' = <<>>
         /\ sortKey' = "newest"
         /\ currentPage' = 1
         /\ allShows' = allShows
         /\ isLoading' = isLoading
         /\ error' = error
         /\ lastOp.op = "reset" =>
               UNCHANGED <<searchTerm, activeGenreIds, sortKey, currentPage>>]_vars

C16_Witness ==
    /\ lastOp.op = "reset"
    /\ lastOp.from >= 2
    /\ totalPages >= 2
    /\ currentPage = 1
    /\ sortKey = "newest"
    /\ searchTerm = <<>>
    /\ activeGenreIds = <<>>

C18_FetchEndsWithinThreeAttempts ==
    /\ [](maxRetries = 3 /\ fetchI \in 0..(maxRetries - 1))
    /\ [](lastOp.op = "load" => lastOp.n \in 1..maxRetries)
    /\ [][(fetchPc = "attempt" /\ fetchPc' = "done") =>
            (allShows' = loaded' /\ error' = error /\ lastOp'.op = "load")]_vars
    /\ [][error' # error =>
            (/\ fetchPc = "backoff"
             /\ fetchI = maxRetries - 1
             /\ fetchPc' = "done")]_vars
    /\ [][fetchPc = "done" => fetchPc' = "done"]_vars
    /\ <>(fetchPc = "done")

C18_Witness ==
    /\ lastOp.op = "load"
    /\ lastOp.n = maxRetries
    /\ fetchPc = "done"
    /\ error = NULL
    /\ Len(allShows) >= 1

(***************************************************************************)
(* C19: the fetch waits only between two attempts, 1 s before the second   *)
(* and 2 s before the third, and not after the last one.  The loop sets    *)
(* its timer after every failed attempt, the third included: the error is  *)
(* thrown only when a wait of 4 s is over.                                 *)
(***************************************************************************)
C19_WaitsOnlyBetweenAttempts ==
    /\ BackoffDelay(0) = 1000
    /\ BackoffDelay(1) = 2 * BackoffDelay(0)
    /\ pendingDelay # 0 =>
          /\ fetchI + 1 < maxRetries
          /\ pendingDelay \in { BackoffDelay(0), BackoffDelay(1) }

(***************************************************************************)
(* C20: when the wait after the third failed attempt is over, whether the  *)
(* attempts failed by an error status or by a thrown network error, an     *)
(* error message is stored; and whenever an error is stored it is the      *)
(* non-empty message of fetchAllPodcasts, the fetch has ended, the loading *)
(* flag is off, no record is held, no item is shown and totalPages is 0.   *)
(***************************************************************************)
C20_FailedFetchEndsInErrorState ==
    /\ (fetchPc = "done" /\ lastOp.op = "backoff") =>
          /\ lastOp.n = maxRetries
          /\ lastOp.key \in FailureKinds
          /\ error # NULL
    /\ error # NULL =>
          /\ error = COULD_NOT_CONNECT
          /\ error # ""
          /\ fetchPc = "done"
          /\ isLoading = FALSE
          /\ allShows = <<>>
          /\ paginatedShows = <<>>
          /\ totalItems = 0
          /\ totalPages = 0
    /\ fetchPc = "done" => isLoading = FALSE

C20_Witness ==
    /\ fetchPc = "done"
    /\ lastOp.op = "backoff"
    /\ lastOp.n = maxRetries
    /\ lastOp.key = "network"
    /\ error = COULD_NOT_CONNECT
    /\ isLoading = FALSE
    /\ searchTerm # <<>>

(***************************************************************************)
(* C21: the list view renders one of Loading, Error, Empty and Ready.  It  *)
(* is Loading for as long as the record fetch is outstanding, Error once   *)
(* the fetch has failed, and after a successful fetch Empty when no record *)
(* matches and Ready otherwise: 'no results' is shown neither during the   *)
(* fetch nor after its failure, although totalItems is 0 then.             *)
(***************************************************************************)
C21_ListViewState ==
    LET view == ShowGridBranch
    IN /\ view \in { "Loading", "Error", "Empty", "Ready" }
       /\ view = "Loading" <=> fetchPc # "done"
       /\ view = "Loading" <=> isLoading
       /\ view = "Error" <=> (fetchPc = "done" /\ error # NULL)
       /\ view = "Empty" <=> (fetchPc = "done" /\ error = NULL /\ totalItems = 0)
       /\ view = "Ready" <=> (fetchPc = "done" /\ error = NULL /\ totalItems > 0)

C21_Witness ==
    /\ ShowGridBranch = "Error"
    /\ totalItems = 0
    /\ searchTerm # <<>>
    /\ lastOp.op = "search"

(***************************************************************************)
(* The Pagination component of App.jsx, and the session in which the       *)
(* records are loaded and the pages are changed through its controls.      *)
(***************************************************************************)
\* the record sets of PagingSpec fill up to MaxListPages pages
MaxListPages == 3
\* the page counts given to a pagination component taken by itself
MaxTotalPages == 10
maxButtons == 5

\* the entry '...' of the button strip (the page numbers start at 1)
ELLIPSIS == 0

\* the 14 records of the scenario: timestamps strictly decreasing in input
\* order
ScenarioCatalogue ==
    [i \in 1..14 |->
        [id |-> i, title |-> Shapes[(i % Len(Shapes)) + 1].title,
         description |-> Fun, genres |-> <<1>>,
         updated |-> <<2023, 6, 15 - i>>]]

\* record sets whose last page holds one record, or is full
StripCatalogues ==
    { LargeCatalogue((p - 1) * ITEMS_PER_PAGE + 1) : p \in 1..MaxListPages }
        \cup { LargeCatalogue(p * ITEMS_PER_PAGE) : p \in 1..MaxListPages }
        \cup { <<>>, ScenarioCatalogue }

\* Pagination returns null for totalPages <= 1, and ShowGrid renders it in
\* its last branch only
PaginationOffered == ShowGridBranch = "Ready" /\ ~(totalPages <= 1)

\* startPage as first computed
StartPage(page, pages) == Max(1, page - (maxButtons \div 2))

EndPage(page, pages) == Min(pages, StartPage(page, pages) + maxButtons - 1)

\* startPage without the adjustment for a short window at the end
StartPageUnadjusted(page, pages) == StartPage(page, pages)

\* startPage after the adjustment for a short window
AdjustedStartPage(page, pages) ==
    IF EndPage(page, pages) - StartPage(page, pages) + 1 < maxButtons
    THEN Max(1, EndPage(page, pages) - maxButtons + 1)
    ELSE StartPage(page, pages)

\* the array pages as pushed: first page and ellipsis, main range, ellipsis
\* and last page
PagesPushed(page, pages) ==
    LET startPage == AdjustedStartPage(page, pages)
        endPage == EndPage(page, pages)
        first == IF startPage > 1
                 THEN <<1>> \o (IF startPage > 2 THEN <<ELLIPSIS>> ELSE <<>>)
                 ELSE <<>>
        main == [i \in 1..(endPage - startPage + 1) |-> startPage + i - 1]
        last == IF endPage < pages
                THEN (IF endPage < pages - 1 THEN <<ELLIPSIS>> ELSE <<>>)
                         \o <<pages>>
                ELSE <<>>
    IN first \o main \o last

\* [...new Set(arr)]: the first occurrence of every value, in order
RECURSIVE UniqueOf(_, _)
UniqueOf(done, rest) ==
    IF rest = <<>> THEN done
    ELSE IF \E i \in 1..Len(done) : done[i] = Head(rest)
    THEN UniqueOf(done, Tail(rest))
    ELSE UniqueOf(Append(done, Head(rest)), Tail(rest))

\* the strip without the pass through Set
RenderPageButtonsAsPushed(page, pages) == PagesPushed(page, pages)

\* uniquePages: the entries of the button strip
RenderPageButtons(page, pages) == UniqueOf(<<>>, PagesPushed(page, pages))

\* the Previous button is disabled on page 1, the Next button on the last page
PreviousDisabled == currentPage = 1

NextDisabled == currentPage = totalPages

\* a Next button that is never disabled
NextRequestsNotDisabled ==
    IF PaginationOffered THEN { currentPage + 1 } ELSE {}

\* the page numbers a click on Previous, on Next, or on a button of the
\* strip passes to handlePageChange
PreviousRequests ==
    IF PaginationOffered /\ ~PreviousDisabled THEN { currentPage - 1 } ELSE {}

NextRequests ==
    IF PaginationOffered /\ ~NextDisabled THEN { currentPage + 1 } ELSE {}

ButtonRequests ==
    IF PaginationOffered
    THEN LET strip == RenderPageButtons(currentPage, totalPages)
         IN { strip[i] : i \in { j \in 1..Len(strip) : strip[j] # ELLIPSIS } }
    ELSE {}

ClickPrevious == \E pageNumber \in PreviousRequests : HandlePageChange(pageNumber)

ClickNext == \E pageNumber \in NextRequests : HandlePageChange(pageNumber)

ClickPageButton == \E pageNumber \in ButtonRequests : HandlePageChange(pageNumber)

\* the records are loaded, the parameters are the defaults
PagingInit ==
    /\ allShows \in StripCatalogues
    /\ loaded = allShows
    /\ searchTerm = <<>>
    /\ sortKey = "newest"
    /\ activeGenreIds = <<>>
    /\ currentPage = 1
    /\ isLoading = FALSE
    /\ error = NULL
    /\ fetchPc = "done"
    /\ fetchI = 0
    /\ lastError = NULL
    /\ lastOp = Op("load", 1, "", <<>>, 1)
    /\ DetailViewClosed
    /\ mountFetches = <<>>
    /\ loadCount = 0
    /\ StripNotRendered

PagingNext ==
    \/ ClickPrevious
    \/ ClickNext
    \/ ClickPageButton
    \/ \E value \in SearchInputs : HandleSearchChange(value)
    \/ \E value \in GenreInputs : HandleGenreSelect(value)
    \/ HandleReset

PagingSpec == PagingInit /\ [][PagingNext]_vars

\* C22: with 14 loaded records whose timestamps strictly decrease in input
\* order, and the default parameters, there are 2 pages, page 1 shows the
\* first 12 input records in input order, and after handlePageChange(2) the
\* view shows exactly the remaining 2 records in input order.
C22_FourteenRecordsTwoPages ==
    ( /\ Len(loaded) = 14
      /\ \A i \in 1..13 :
            DateGetTime(loaded[i].updated) > DateGetTime(loaded[i + 1].updated)
      /\ searchTerm = <<>> /\ activeGenreIds = <<>> /\ sortKey = "newest" )
    => /\ totalPages = 2
       /\ currentPage = 1 => paginatedShows = SubSeq(loaded, 1, ITEMS_PER_PAGE)
       /\ (lastOp.op = "page" /\ lastOp.n = 2)
             => /\ currentPage = 2
                /\ paginatedShows = <<loaded[13], loaded[14]>>

C22_Witness ==
    /\ loaded = ScenarioCatalogue
    /\ searchTerm = <<>> /\ activeGenreIds = <<>> /\ sortKey = "newest"
    /\ lastOp.op = "page" /\ lastOp.n = 2
    /\ Len(paginatedShows) = 2

\* PaginationControls.jsx: the page numbers handlePrev and handleNext pass to
\* onPageChange when the component is given page and pages
HandlePrevRequests(page, pages) ==
    IF pages <= 1 THEN {}
    ELSE IF page > 1 THEN { page - 1 } ELSE {}

HandleNextRequests(page, pages) ==
    IF pages <= 1 THEN {}
    ELSE IF page < pages THEN { page + 1 } ELSE {}

\* C25: the previous and next controls never request a page outside
\* 1..totalPages: previous requests nothing on page 1, next requests nothing
\* on the last page, and no control is offered when totalPages <= 1; a page
\* requested through a control is the page shown, within 1..totalPages.
C25_ControlsStayInRange ==
    LET requests == PreviousRequests \cup NextRequests
                        \cup HandlePrevRequests(currentPage, totalPages)
                        \cup HandleNextRequests(currentPage, totalPages)
    IN /\ requests \subseteq 1..totalPages
       /\ currentPage = 1 =>
             PreviousRequests \cup HandlePrevRequests(currentPage, totalPages) = {}
       /\ currentPage = totalPages =>
             NextRequests \cup HandleNextRequests(currentPage, totalPages) = {}
       /\ totalPages <= 1 => ~PaginationOffered /\ requests \cup ButtonRequests = {}
       /\ (totalPages > 1 /\ currentPage \in 2..totalPages) =>
             /\ PreviousRequests = { currentPage - 1 }
             /\ HandlePrevRequests(currentPage, totalPages) = { currentPage - 1 }
       /\ (totalPages > 1 /\ currentPage \in 1..(totalPages - 1)) =>
             /\ NextRequests = { currentPage + 1 }
             /\ HandleNextRequests(currentPage, totalPages) = { currentPage + 1 }
       /\ lastOp.op = "page" => currentPage = lastOp.n /\ currentPage \in 1..totalPages

C25_Witness ==
    /\ lastOp.op = "page"
    /\ totalPages > 1
    /\ currentPage = totalPages
    /\ NextRequests = {}
    /\ PreviousRequests = { totalPages - 1 }

(***************************************************************************)
(* A pagination component taken by itself: it is given currentPage and     *)
(* totalPages and renders its page buttons.                                *)
(***************************************************************************)
\* PaginationControls.jsx: start as first computed, end, and the start moved
\* when the window ends on the last page
ControlsStart(page, pages) == Max(1, page - (maxButtons \div 2))

ControlsEnd(page, pages) == Min(pages, ControlsStart(page, pages) + maxButtons - 1)

ControlsAdjustedStart(page, pages) ==
    IF ControlsEnd(page, pages) = pages
    THEN Max(1, pages - maxButtons + 1)
    ELSE ControlsStart(page, pages)

\* PaginationControls.jsx: the numbers of the buttons pushed
ControlsPageButtons(page, pages) ==
    LET start == ControlsAdjustedStart(page, pages)
        end == ControlsEnd(page, pages)
    IN [i \in 1..(end - start + 1) |-> start + i - 1]

\* what a component may be given: a page count and a page within it
StripInputs ==
    { props \in [currentPage : 1..MaxTotalPages, totalPages : 0..MaxTotalPages] :
          props.currentPage <= Max(1, props.totalPages) }

\* Pagination of App.jsx renders: nothing for totalPages <= 1, else the strip
RenderPagination ==
    /\ pageButtons' =
          IF stripProps.totalPages <= 1 THEN <<>>
          ELSE RenderPageButtons(stripProps.currentPage, stripProps.totalPages)
    /\ UNCHANGED <<allShows, searchTerm, sortKey, activeGenreIds, currentPage,
                   isLoading, error, fetchPc, fetchI, lastError, loaded, lastOp,
                   detailVars, mountVars, stripProps, controlButtons>>

\* PaginationControls renders: nothing for totalPages <= 1, else the buttons
RenderPaginationControls ==
    /\ controlButtons' =
          IF stripProps.totalPages <= 1 THEN <<>>
          ELSE ControlsPageButtons(stripProps.currentPage, stripProps.totalPages)
    /\ UNCHANGED <<allShows, searchTerm, sortKey, activeGenreIds, currentPage,
                   isLoading, error, fetchPc, fetchI, lastError, loaded, lastOp,
                   detailVars, mountVars, stripProps, pageButtons>>

StripInit ==
    /\ allShows = <<>>
    /\ loaded = <<>>
    /\ searchTerm = <<>>
    /\ sortKey = "newest"
    /\ activeGenreIds = <<>>
    /\ currentPage = 1
    /\ isLoading = TRUE
    /\ error = NULL
    /\ fetchPc = "attempt"
    /\ fetchI = 0
    /\ lastError = NULL
    /\ lastOp = Op("mount", 0, "", <<>>, 0)
    /\ DetailViewClosed
    /\ mountFetches = <<>>
    /\ loadCount = 0
    /\ stripProps \in StripInputs
    /\ pageButtons = <<>>
    /\ controlButtons = <<>>

StripNext ==
    \/ RenderPagination
    \/ RenderPaginationControls

StripSpec == StripInit /\ [][StripNext]_vars

\* the positions of the page numbers in a strip, and whether two of them are
\* neighbours (nothing but ellipsis entries between them)
NumberPositions(strip) == { i \in 1..Len(strip) : strip[i] # ELLIPSIS }

NeighbourNumbers(strip, i, j) ==
    /\ i \in NumberPositions(strip) /\ j \in NumberPositions(strip)
    /\ i < j
    /\ \A k \in (i + 1)..(j - 1) : strip[k] = ELLIPSIS

\* C28: in the rendered strip of Pagination, between two neighbouring page
\* numbers that are not consecutive integers stands exactly one '...' entry
\* (and none between consecutive ones), also when there is a gap on both
\* sides of the window.
C28_EllipsisAtEveryGap ==
    (stripProps.totalPages > 1 /\ pageButtons # <<>>) =>
        \A i, j \in 1..Len(pageButtons) :
            NeighbourNumbers(pageButtons, i, j) =>
                j - i = (IF pageButtons[j] = pageButtons[i] + 1 THEN 1 ELSE 2)

\* the strip as pushed, before the pass through Set, has its marker at every
\* gap
C28_PushedPagesMarkEveryGap ==
    \A pages \in 2..MaxTotalPages : \A page \in 1..pages :
        LET strip == PagesPushed(page, pages)
        IN \A i, j \in 1..Len(strip) :
               NeighbourNumbers(strip, i, j) =>
                   j - i = (IF strip[j] = strip[i] + 1 THEN 1 ELSE 2)

\* the page numbers of a strip, in order
NumbersOf(strip) == { strip[i] : i \in NumberPositions(strip) }

\* C29: for totalPages > 1 and currentPage within 1..totalPages the page
\* numbers offered are distinct integers of 1..totalPages and include
\* currentPage; in PaginationControls they are exactly min(5, totalPages)
\* consecutive numbers; in Pagination they are such a window plus the first
\* and the last page.
C29_PageNumbersOffered ==
    LET page == stripProps.currentPage
        pages == stripProps.totalPages
        size == Min(maxButtons, pages)
        IsWindow(S) == /\ Cardinality(S) = size
                       /\ \E lo \in 1..pages : S = lo..(lo + size - 1)
                       /\ S \subseteq 1..pages
                       /\ page \in S
        Distinct(strip) ==
            \A i, j \in NumberPositions(strip) : strip[i] = strip[j] => i = j
    IN pages > 1 =>
          /\ controlButtons # <<>> =>
                /\ Distinct(controlButtons)
                /\ NumberPositions(controlButtons) = 1..Len(controlButtons)
                /\ IsWindow(NumbersOf(controlButtons))
                /\ \A i \in 1..(Len(controlButtons) - 1) :
                       controlButtons[i + 1] = controlButtons[i] + 1
          /\ pageButtons # <<>> =>
                /\ Distinct(pageButtons)
                /\ NumbersOf(pageButtons) \subseteq 1..pages
                /\ page \in NumbersOf(pageButtons)
                /\ \E W \in SUBSET NumbersOf(pageButtons) :
                       /\ IsWindow(W)
                       /\ NumbersOf(pageButtons) = W \cup { 1, pages }
                /\ \A i, j \in NumberPositions(pageButtons) :
                       i < j => pageButtons[i] < pageButtons[j]

C29_Witness ==
    /\ stripProps.totalPages > maxButtons + 2
    /\ stripProps.currentPage = stripProps.totalPages
    /\ Len(controlButtons) = maxButtons
    /\ Len(pageButtons) = maxButtons + 2

(***************************************************************************)
(* The detail view: handleViewDetails, handleCloseDetails and the effect   *)
(* on selectedShowId that fetches the details.  null is 0, the details of  *)
(* a show are stood for by its id, and detailFetches lists the ids whose   *)
(* fetchShowDetails promise has not settled, in the order of their start.  *)
(* The promises settle in any order.                                       *)
(***************************************************************************)
\* how many detail fetches are followed at a time
MaxDetailFetches == 2

\* the ids handleViewDetails is called with
ShowIds == { 1, 2 }

\* the message fetchShowDetails throws
DetailsErrorOf(id) ==
    IF id = 1 THEN "Failed to load details for show ID 1."
    ELSE "Failed to load details for show ID 2."

\* a sequence without its k-th element
RemoveAt(seq, k) == SubSeq(seq, 1, k - 1) \o SubSeq(seq, k + 1, Len(seq))

\* setDetailedShow(data) of the fetch that settles
DetailedShowAfterOk(k) == detailFetches[k]

\* setIsDetailsLoading(false) in the finally of the fetch that settles
LoadingAfterSettle(k) == FALSE

listVars == <<allShows, searchTerm, sortKey, activeGenreIds, currentPage,
              isLoading, error, fetchPc, fetchI, lastError, loaded>>

\* handleViewDetails, then the effect for the new selectedShowId: nothing
\* when the id is the one selected already, else loadDetails up to its await
HandleViewDetails(showId) ==
    /\ selectedShowId' = showId
    /\ IF showId = selectedShowId
       THEN UNCHANGED <<detailedShow, isDetailsLoading, detailsError, detailFetches>>
       ELSE /\ Len(detailFetches) < MaxDetailFetches
            /\ isDetailsLoading' = TRUE
            /\ detailsError' = NULL
            /\ detailFetches' = Append(detailFetches, showId)
            /\ UNCHANGED detailedShow
    /\ lastOp' = Op("view", showId, "", <<>>, 0)
    /\ UNCHANGED <<listVars, mountVars, stripVars>>

\* a handleCloseDetails that clears the filter bar as well
HandleCloseDetailsClearingSearch ==
    /\ selectedShowId' = 0
    /\ detailedShow' = 0
    /\ detailsError' = NULL
    /\ searchTerm' = <<>>
    /\ currentPage' = SettlePage(1, TotalPagesOf(allShows, activeGenreIds, <<>>, sortKey))
    /\ lastOp' = Op("close", 0, "", <<>>, 0)
    /\ UNCHANGED <<isDetailsLoading, detailFetches>>
    /\ UNCHANGED <<allShows, sortKey, activeGenreIds, isLoading, error, fetchPc,
                   fetchI, lastError, loaded, mountVars, stripVars>>

\* handleCloseDetails, then the effect for selectedShowId = null
HandleCloseDetails ==
    /\ selectedShowId' = 0
    /\ detailedShow' = 0
    /\ detailsError' = NULL
    /\ lastOp' = Op("close", 0, "", <<>>, 0)
    /\ UNCHANGED <<isDetailsLoading, detailFetches>>
    /\ UNCHANGED <<listVars, mountVars, stripVars>>

\* the k-th fetch in flight resolves: the rest of loadDetails after its await
DetailFetchOk(k) ==
    /\ k \in 1..Len(detailFetches)
    /\ detailedShow' = DetailedShowAfterOk(k)
    /\ isDetailsLoading' = LoadingAfterSettle(k)
    /\ detailFetches' = RemoveAt(detailFetches, k)
    /\ lastOp' = Op("details", detailFetches[k], "ok", <<>>, 0)
    /\ UNCHANGED <<selectedShowId, detailsError>>
    /\ UNCHANGED <<listVars, mountVars, stripVars>>

\* the k-th fetch in flight rejects
DetailFetchFail(k) ==
    /\ k \in 1..Len(detailFetches)
    /\ detailsError' = DetailsErrorOf(detailFetches[k])
    /\ isDetailsLoading' = LoadingAfterSettle(k)
    /\ detailFetches' = RemoveAt(detailFetches, k)
    /\ lastOp' = Op("details", detailFetches[k], "failed", <<>>, 0)
    /\ UNCHANGED <<selectedShowId, detailedShow>>
    /\ UNCHANGED <<listVars, mountVars, stripVars>>

\* the records are loaded (two pages of them), no show is selected
DetailInit ==
    /\ allShows = LargeCatalogue(ITEMS_PER_PAGE + 1)
    /\ loaded = allShows
    /\ searchTerm = <<>>
    /\ sortKey = "newest"
    /\ activeGenreIds = <<>>
    /\ currentPage = 1
    /\ isLoading = FALSE
    /\ error = NULL
    /\ fetchPc = "done"
    /\ fetchI = 0
    /\ lastError = NULL
    /\ lastOp = Op("load", 1, "", <<>>, 1)
    /\ DetailViewClosed
    /\ mountFetches = <<>>
    /\ loadCount = 0
    /\ StripNotRendered

\* the options chosen in the filter bar while the detail view is followed
DetailSortInputs == { "newest", "title_asc" }
DetailGenreInputs == { <<"0">>, <<"3">> }

DetailNext ==
    \/ \E showId \in ShowIds : HandleViewDetails(showId)
    \/ HandleCloseDetails
    \/ \E k \in 1..MaxDetailFetches : DetailFetchOk(k)
    \/ \E k \in 1..MaxDetailFetches : DetailFetchFail(k)
    \/ ClickPrevious
    \/ ClickNext
    \/ \E value \in SearchInputs : HandleSearchChange(value)
    \/ \E value \in DetailSortInputs : HandleSortChange(value)
    \/ \E value \in DetailGenreInputs : HandleGenreSelect(value)
    \/ HandleReset

DetailSpec == DetailInit /\ [][DetailNext]_vars

\* C23: a step that changes the search term, the selected genre or the sort
\* key is a step of the search, genre, sort or reset handler; a page change,
\* the opening or closing of the detail view and the settling of a detail
\* fetch leave all three as they were.
C23_OnlyFilterHandlersChangeParameters ==
    [][ LET changed == \/ searchTerm' # searchTerm
                       \/ activeGenreIds' # activeGenreIds
                       \/ sortKey' # sortKey
        IN /\ changed => lastOp'.op \in { "search", "genre", "sort", "reset" }
           /\ lastOp'.op \in { "page", "view", "close", "details" } => ~changed
           /\ selectedShowId' # selectedShowId => ~changed ]_vars

C23_Witness ==
    /\ lastOp.op = "close"
    /\ searchTerm # <<>>
    /\ activeGenreIds # <<>>
    /\ sortKey = "title_asc"
    /\ selectedShowId = 0

EffectRuns == { 1, 2 }

\* the mount effects run: every run calls loadShows, which sets isLoading
\* and clears error before its await
MountEffects(runs) ==
    /\ mountFetches = <<>>
    /\ mountFetches' = [i \in 1..runs |-> "pending"]
    /\ isLoading' = TRUE
    /\ error' = NULL
    /\ lastOp' = Op("mount", runs, "", <<>>, 0)
    /\ UNCHANGED <<allShows, searchTerm, sortKey, activeGenreIds, currentPage,
                   fetchPc, fetchI, lastError, loaded, loadCount>>
    /\ UNCHANGED <<detailVars, stripVars>>

\* the fetch of run k resolves: setAllShows(data), finally
\* setIsLoading(false), then the render with its page sync
LoadShowsOk(k, data) ==
    /\ k \in 1..Len(mountFetches)
    /\ mountFetches[k] = "pending"
    /\ mountFetches' = [mountFetches EXCEPT ![k] = "done"]
    /\ allShows' = SourceAfterSort(data,
                       FilteredAndSearchedShows(data, activeGenreIds, searchTerm),
                       sortKey)
    /\ loaded' = data
    /\ loadCount' = loadCount + 1
    /\ isLoading' = FALSE
    /\ currentPage' =
          SettlePage(currentPage,
                     TotalPagesOf(data, activeGenreIds, searchTerm, sortKey))
    /\ lastOp' = Op("load", k, "", <<>>, currentPage)
    /\ UNCHANGED <<searchTerm, sortKey, activeGenreIds, error, fetchPc, fetchI,
                   lastError>>
    /\ UNCHANGED <<detailVars, stripVars>>

\* the fetch of run k rejects: setError(err.message), finally
\* setIsLoading(false)
LoadShowsFail(k) ==
    /\ k \in 1..Len(mountFetches)
    /\ mountFetches[k] = "pending"
    /\ mountFetches' = [mountFetches EXCEPT ![k] = "failed"]
    /\ error' = COULD_NOT_CONNECT
    /\ isLoading' = FALSE
    /\ lastOp' = Op("load", k, "failed", <<>>, currentPage)
    /\ UNCHANGED <<allShows, searchTerm, sortKey, activeGenreIds, currentPage,
                   fetchPc, fetchI, lastError, loaded, loadCount>>
    /\ UNCHANGED <<detailVars, stripVars>>

MountNext ==
    \/ \E runs \in EffectRuns : MountEffects(runs)
    \/ \E k \in 1..2, data \in Responses : LoadShowsOk(k, data)
    \/ \E k \in 1..2 : LoadShowsFail(k)

MountSpec == Init /\ [][MountNext]_vars

\* the loads started, and those in flight
LoadsStarted == Len(mountFetches)

LoadsInFlight == Cardinality({ k \in 1..Len(mountFetches) : mountFetches[k] = "pending" })

\* C24: the record fetch is started exactly once at startup, the source set
\* is stored at most once, no second load runs beside or after the first,
\* and isLoading never returns to true once it has become false.
C24_OneLoadPerSession ==
    /\ [](LoadsStarted <= 1 /\ LoadsInFlight <= 1 /\ loadCount <= 1)
    /\ [][LoadsStarted > 0 => LoadsStarted' = LoadsStarted]_vars
    /\ [][isLoading' => isLoading]_vars

\* the last part alone: isLoading never returns to true
C24_LoadingNeverReturns == [][isLoading' => isLoading]_vars

\* in the production build the whole claim holds
C24_OneLoadWhenEffectRunsOnce ==
    (mountFetches # <<>> /\ lastOp.op = "mount" /\ lastOp.n = 1) =>
        (LoadsStarted = 1 /\ LoadsInFlight = 1 /\ loadCount = 0)

====
